---- MODULE Spec2Model ----
(***************************************************************************)
(* Model of giantswarm/badnodedetector: the detector package               *)
(* (pkg/detector/detector.go) and the time lock it uses                    *)
(* (pkg/lock/timelock.go).                                                 *)
(*                                                                         *)
(* Conventions                                                             *)
(*  - A Go string that the code parses or formats (the tick annotation)    *)
(*    is a sequence of one-character strings, so strconv.Atoi and          *)
(*    fmt.Sprintf("%d") are computed character by character.               *)
(*  - A Go map is a record [isNil, kv]: reading a nil map yields the zero  *)
(*    value, writing to it panics.                                         *)
(*  - Time is an integer number of clock units; Second units make one      *)
(*    second.  A float64 percentage is modelled by its number of           *)
(*    hundredths.                                                          *)
(***************************************************************************)
EXTENDS Integers, Sequences, FiniteSets, TLC

VARIABLES nodes, ns, now, cfg, ret, calc, callers

vars == <<nodes, ns, now, cfg, ret, calc, callers>>

(***************************************************************************)
(* Bounds of the model                                                     *)
(***************************************************************************)
\* clock units per second
Second == 2
\* longest node list of the store in Spec
MaxNodes == 2
\* longest node list of the store in SpecPass
MaxPassNodes == 3
\* longest condition list of a node in SpecPure
MaxConds == 2
\* a pass is not started when some counter already parses above MaxTick
MaxTick == 3
\* the clock stops at MaxTime seconds
MaxTime == 30
\* longest candidate list handed to the selector on its own
MaxLen == 4
\* largest node count handed to maximumNodeTermination on its own
MaxNodeCount == 50
\* seconds the clock of SpecLock runs
MaxLockTime == 4
\* seconds the clock of SpecRace runs
MaxRaceTime == 1

(***************************************************************************)
(* Program constants                                                       *)
(***************************************************************************)
\* 0.10, in hundredths
defaultMaxNodeTerminationPercentage == 10
defaultNotReadyTickThreshold == 6
\* time.Minute * 10, a time.Duration in clock units
defaultPauseBetweenTermination == 600 * Second
\* time.Second * 30, in seconds
nodeNotReadyDuration == 30
annotationNodeNotReadyTick == "giantswarm.io/node-not-ready-tick"
labelNodeRole == "role"
labelNodeRoleMaster == "master"
labelNodeRoleWorker == "worker"
timeLockName == "timelock.giantswarm.io/until"

\* corev1.NodeConditionType and corev1.ConditionStatus values used here
NodeReady == "Ready"
NodeDiskFull == "DiskFull"
ConditionTrue == "True"
ConditionFalse == "False"
ConditionUnknown == "Unknown"

(***************************************************************************)
(* Go maps                                                                 *)
(***************************************************************************)
EmptyKV == [k \in {} |-> <<>>]

NilMap == [isNil |-> TRUE, kv |-> EmptyKV]

EmptyMap == [isNil |-> FALSE, kv |-> EmptyKV]

MapHas(m, k) == k \in DOMAIN m.kv

MapGet(m, k, zero) == IF MapHas(m, k) THEN m.kv[k] ELSE zero

MapSet(m, k, v) ==
    [isNil |-> FALSE,
     kv |-> [x \in (DOMAIN m.kv) \cup {k} |-> IF x = k THEN v ELSE m.kv[x]]]

MapDelete(m, k) ==
    [isNil |-> m.isNil,
     kv |-> [x \in (DOMAIN m.kv) \ {k} |-> m.kv[x]]]

(***************************************************************************)
(* strconv.Atoi and fmt.Sprintf("%d", n)                                   *)
(***************************************************************************)
Digits == <<"0", "1", "2", "3", "4", "5", "6", "7", "8", "9">>

IsDigit(ch) == \E d \in 1..10 : Digits[d] = ch

DigitVal(ch) == (CHOOSE d \in 1..10 : Digits[d] = ch) - 1

RECURSIVE DigitsValue(_)
DigitsValue(s) ==
    IF s = <<>> THEN 0
    ELSE DigitsValue(SubSeq(s, 1, Len(s) - 1)) * 10 + DigitVal(s[Len(s)])

\* strconv.Atoi: an optional sign, then one or more decimal digits
Atoi(s) ==
    LET signed == s # <<>> /\ s[1] \in {"+", "-"}
        body == IF signed THEN Tail(s) ELSE s
        ok == body # <<>> /\ \A i \in 1..Len(body) : IsDigit(body[i])
    IN  [err |-> ~ok,
         val |-> IF ~ok THEN 0
                 ELSE IF s[1] = "-" THEN 0 - DigitsValue(body)
                 ELSE DigitsValue(body)]

RECURSIVE FormatNat(_)
FormatNat(n) ==
    IF n < 10 THEN <<Digits[n + 1]>>
    ELSE FormatNat(n \div 10) \o <<Digits[(n % 10) + 1]>>

\* fmt.Sprintf("%d", n)
Sprintf(n) == IF n < 0 THEN <<"-">> \o FormatNat(0 - n) ELSE FormatNat(n)

(***************************************************************************)
(* Health evaluator                                                        *)
(***************************************************************************)
\* time.Since(t) at clock reading t0
Since(t0, t) == t0 - t

nodeNotReady(n, t0) ==
    \E i \in 1..Len(n.conditions) :
        /\ n.conditions[i].type = NodeReady
        /\ n.conditions[i].status # ConditionTrue
        /\ Since(t0, n.conditions[i].lastHeartbeatTime) >= nodeNotReadyDuration * Second

(***************************************************************************)
(* Tick counter                                                            *)
(***************************************************************************)
\* variant: a healthy node is decremented without the test for count > 0
nodeNotReadyTickCountNoFloor(n, t0) ==
    LET ok == MapHas(n.annotations, annotationNodeNotReadyTick)
        parsed == Atoi(MapGet(n.annotations, annotationNodeNotReadyTick, <<>>))
        start == IF ok /\ ~parsed.err THEN parsed.val ELSE 0
    IN  IF nodeNotReady(n, t0)
        THEN [count |-> start + 1, updated |-> TRUE]
        ELSE [count |-> start - 1, updated |-> TRUE]

\* variant: a garbage annotation is read as 0 but not marked for update
nodeNotReadyTickCountNoReset(n, t0) ==
    LET ok == MapHas(n.annotations, annotationNodeNotReadyTick)
        parsed == Atoi(MapGet(n.annotations, annotationNodeNotReadyTick, <<>>))
        start == IF ok /\ ~parsed.err THEN parsed.val ELSE 0
    IN  IF nodeNotReady(n, t0)
        THEN [count |-> start + 1, updated |-> TRUE]
        ELSE IF start > 0
        THEN [count |-> start - 1, updated |-> TRUE]
        ELSE [count |-> start, updated |-> FALSE]

\* variant: a healthy observation bleeds the counter down by two
nodeNotReadyTickCountBleedTwo(n, t0) ==
    LET ok == MapHas(n.annotations, annotationNodeNotReadyTick)
        parsed == Atoi(MapGet(n.annotations, annotationNodeNotReadyTick, <<>>))
        start == IF ok /\ ~parsed.err THEN parsed.val ELSE 0
        garbage == ok /\ parsed.err
    IN  IF nodeNotReady(n, t0)
        THEN [count |-> start + 1, updated |-> TRUE]
        ELSE IF start > 1
        THEN [count |-> start - 2, updated |-> TRUE]
        ELSE IF start > 0
        THEN [count |-> start - 1, updated |-> TRUE]
        ELSE [count |-> start, updated |-> garbage]

\* variant: an unhealthy observation leaves a counter of 1 where it is
nodeNotReadyTickCountStall(n, t0) ==
    LET ok == MapHas(n.annotations, annotationNodeNotReadyTick)
        parsed == Atoi(MapGet(n.annotations, annotationNodeNotReadyTick, <<>>))
        start == IF ok /\ ~parsed.err THEN parsed.val ELSE 0
        garbage == ok /\ parsed.err
    IN  IF nodeNotReady(n, t0)
        THEN [count |-> IF start = 1 THEN 1 ELSE start + 1, updated |-> TRUE]
        ELSE IF start > 0
        THEN [count |-> start - 1, updated |-> TRUE]
        ELSE [count |-> start, updated |-> garbage]

nodeNotReadyTickCount(n, t0) ==
    LET ok == MapHas(n.annotations, annotationNodeNotReadyTick)
        parsed == Atoi(MapGet(n.annotations, annotationNodeNotReadyTick, <<>>))
        start == IF ok /\ ~parsed.err THEN parsed.val ELSE 0
        garbage == ok /\ parsed.err
    IN  IF nodeNotReady(n, t0)
        THEN [count |-> start + 1, updated |-> TRUE]
        ELSE IF start > 0
        THEN [count |-> start - 1, updated |-> TRUE]
        ELSE [count |-> start, updated |-> garbage]

(***************************************************************************)
(* Candidate selector                                                      *)
(***************************************************************************)
\* Inputs (nodeCount, hundredths) at which nodeCount * hundredths / 100 is
\* exactly k + 1/2 but the float64 product
\* float64(nodeCount) * maxNodeTerminationPercentage is the float64 just
\* below k + 1/2 (IEEE 754 binary64, round to nearest even); the list is
\* complete for nodeCount <= 100 and 0..100 hundredths, and (1000, 25) is
\* not in it.  At every other exact half the product is exactly k + 1/2,
\* and away from a half the float64 error (below 2^-40) cannot move the
\* product across one.
float64ProductBelowHalf ==
    {<<25, 58>>, <<45, 70>>, <<50, 29>>, <<50, 57>>, <<75, 82>>,
     <<85, 70>>, <<90, 35>>}

\* math.Round(float64(nodeCount) * p) for nodeCount * p >= 0:
\* round half away from zero of the float64 product
Round(nodeCount, hundredths) ==
    IF <<nodeCount, hundredths>> \in float64ProductBelowHalf
    THEN (nodeCount * hundredths) \div 100
    ELSE (2 * nodeCount * hundredths + 100) \div 200

\* variant: without the minimum of 1
maximumNodeTerminationNoMinimum(nodeCount, hundredths) ==
    Round(nodeCount, hundredths)

maximumNodeTermination(nodeCount, hundredths) ==
    LET limit == Round(nodeCount, hundredths)
    IN  IF limit < 1 THEN 1 ELSE limit

RECURSIVE removeMultipleMasterNodesFrom(_, _, _)
removeMultipleMasterNodesFrom(nodeList, foundMasterNode, filteredNodes) ==
    IF nodeList = <<>> THEN filteredNodes
    ELSE LET n == Head(nodeList)
         IN  IF MapGet(n.labels, labelNodeRole, "") = labelNodeRoleMaster
             THEN IF ~foundMasterNode
                  THEN removeMultipleMasterNodesFrom(Tail(nodeList), TRUE,
                                                     Append(filteredNodes, n))
                  ELSE removeMultipleMasterNodesFrom(Tail(nodeList), TRUE,
                                                     filteredNodes)
             ELSE removeMultipleMasterNodesFrom(Tail(nodeList), foundMasterNode,
                                                Append(filteredNodes, n))

\* variant: foundMasterNode is never set
removeMultipleMasterNodesKeepAll(nodeList) == nodeList

\* variant: foundMasterNode starts as true
removeMultipleMasterNodesDropAll(nodeList) ==
    removeMultipleMasterNodesFrom(nodeList, TRUE, <<>>)

removeMultipleMasterNodes(nodeList) ==
    removeMultipleMasterNodesFrom(nodeList, FALSE, <<>>)

(***************************************************************************)
(* Time lock (pkg/lock/timelock.go)                                        *)
(***************************************************************************)
\* A string built by fmt.Sprintf("%s.%s", ...) is the sequence of its parts,
\* so the key of owner <<"a">> is <<"a", timeLockName>>.
lockName(component) == component \o <<timeLockName>>

\* t.Format(time.UnixDate): "Mon Jan _2 15:04:05 MST 2006" keeps whole
\* seconds only
Format(t) == [layout |-> "UnixDate", sec |-> t \div Second]

\* a stored value that is not in the time.UnixDate layout
GarbageTime == [layout |-> "garbage", sec |-> 0]

\* time.Parse(time.UnixDate, timeStamp)
Parse(timeStamp) ==
    [err |-> timeStamp.layout # "UnixDate",
     t |-> IF timeStamp.layout = "UnixDate" THEN timeStamp.sec * Second ELSE 0]

\* variant: an expiry that does not parse counts as no lock
isLockedIgnoreParse(nsAnnotations, component, t0, getFails) ==
    IF getFails THEN [locked |-> FALSE, err |-> "storeError"]
    ELSE IF MapHas(nsAnnotations, lockName(component))
    THEN LET ts == Parse(nsAnnotations.kv[lockName(component)])
         IN  [locked |-> ~ts.err /\ t0 < ts.t, err |-> "nil"]
    ELSE [locked |-> FALSE, err |-> "nil"]

\* variant: the owner still counts as locked at the instant of the expiry
isLockedAtExpiry(nsAnnotations, component, t0, getFails) ==
    IF getFails THEN [locked |-> FALSE, err |-> "storeError"]
    ELSE IF MapHas(nsAnnotations, lockName(component))
    THEN LET ts == Parse(nsAnnotations.kv[lockName(component)])
         IN  IF ts.err THEN [locked |-> FALSE, err |-> "parseError"]
             ELSE [locked |-> t0 <= ts.t, err |-> "nil"]
    ELSE [locked |-> FALSE, err |-> "nil"]

\* getFails: the k8sClient.Get of the namespace returns an error
isLocked(nsAnnotations, component, t0, getFails) ==
    IF getFails THEN [locked |-> FALSE, err |-> "storeError"]
    ELSE IF MapHas(nsAnnotations, lockName(component))
    THEN LET ts == Parse(nsAnnotations.kv[lockName(component)])
         IN  IF ts.err THEN [locked |-> FALSE, err |-> "parseError"]
             ELSE [locked |-> t0 < ts.t, err |-> "nil"]
    ELSE [locked |-> FALSE, err |-> "nil"]

createLock(nsAnnotations, component, t0, ttl, getFails, updateFails) ==
    IF getFails THEN [ns |-> nsAnnotations, err |-> "storeError"]
    ELSE IF nsAnnotations.isNil THEN [ns |-> nsAnnotations, err |-> "panic"]
    ELSE IF updateFails THEN [ns |-> nsAnnotations, err |-> "storeError"]
    ELSE [ns |-> MapSet(nsAnnotations, lockName(component), Format(t0 + ttl)),
          err |-> "nil"]

\* variant: an attempt on a held lock pushes the expiry out
LockRenew(nsAnnotations, component, t0, ttl, fails) ==
    LET l == isLocked(nsAnnotations, component, t0, fails[1])
    IN  IF l.err # "nil" THEN [ns |-> nsAnnotations, err |-> l.err]
        ELSE IF l.locked
        THEN [ns |-> MapSet(nsAnnotations, lockName(component), Format(t0 + ttl)),
              err |-> "alreadyExists"]
        ELSE createLock(nsAnnotations, component, t0, ttl, fails[2], fails[3])

\* TimeLock.Lock; fails[k] tells whether its k-th store call fails
Lock(nsAnnotations, component, t0, ttl, fails) ==
    LET l == isLocked(nsAnnotations, component, t0, fails[1])
    IN  IF l.err # "nil" THEN [ns |-> nsAnnotations, err |-> l.err]
        ELSE IF l.locked THEN [ns |-> nsAnnotations, err |-> "alreadyExists"]
        ELSE createLock(nsAnnotations, component, t0, ttl, fails[2], fails[3])

\* TimeLock.ClearLock: the test reads the key lockName(component), the
\* delete removes the key component
ClearLock(nsAnnotations, component, getFails, updateFails) ==
    IF getFails
    THEN [ns |-> nsAnnotations, err |-> "storeError", updated |-> FALSE]
    ELSE IF MapHas(nsAnnotations, lockName(component))
    THEN IF updateFails
         THEN [ns |-> nsAnnotations, err |-> "storeError", updated |-> TRUE]
         ELSE [ns |-> MapDelete(nsAnnotations, component), err |-> "nil",
               updated |-> TRUE]
    ELSE [ns |-> nsAnnotations, err |-> "nil", updated |-> FALSE]

\* variant: no error is recognised as alreadyExistsError
IsAlreadyExistsNever(err) == FALSE

IsAlreadyExists(err) == err = "alreadyExists"

(***************************************************************************)
(* Detector                                                                *)
(***************************************************************************)
NewDetector(config) ==
    [lockName |-> config.LockName,
     maxNodeTerminationPercentage |->
         IF config.MaxNodeTerminationPercentage = 0
         THEN defaultMaxNodeTerminationPercentage
         ELSE config.MaxNodeTerminationPercentage,
     notReadyTickThreshold |->
         IF config.NotReadyTickThreshold = 0
         THEN defaultNotReadyTickThreshold
         ELSE config.NotReadyTickThreshold,
     pauseBetweenTermination |->
         IF config.PauseBetweenTermination = 0
         THEN defaultPauseBetweenTermination
         ELSE config.PauseBetweenTermination]

\* variant: > instead of >=
reachedThresholdStrict(notReadyTickCount, notReadyTickThreshold) ==
    notReadyTickCount > notReadyTickThreshold

\* line 123 of detector.go: the node has reached the tick threshold
reachedThreshold(notReadyTickCount, notReadyTickThreshold) ==
    notReadyTickCount >= notReadyTickThreshold

\* The body of the loop over nodeList.Items of DetectBadNodes for item i,
\* which is n, with tc the result of nodeNotReadyTickCount(n).
\* st.store is the store's node list, st.calls the number of store calls
\* made so far; the store call number failAt returns an error.
RECURSIVE rangeItems(_, _, _, _, _)
\* variant: a failed Update is tried a second time before the loop gives up
rangeItemRetry(st, i, n, tc, t0, d, failAt) ==
    LET written == [n EXCEPT !.annotations =
                       MapSet(@, annotationNodeNotReadyTick, Sprintf(tc.count))]
        shared == IF tc.updated /\ ~n.annotations.isNil THEN written ELSE n
        evaluated ==
            [st EXCEPT
               !.ticks = Append(@, tc),
               !.seen = Append(@,
                   [had |-> MapHas(n.annotations, annotationNodeNotReadyTick),
                    text |-> MapGet(n.annotations, annotationNodeNotReadyTick, <<>>),
                    notReady |-> nodeNotReady(n, t0)]),
               !.badNodes = IF reachedThreshold(tc.count, d.notReadyTickThreshold)
                            THEN Append(@, shared) ELSE @]
    IN  IF ~tc.updated
        THEN rangeItems(evaluated, i + 1, t0, d, failAt)
        ELSE IF n.annotations.isNil
        THEN [evaluated EXCEPT !.err = "panic"]
        ELSE IF st.calls + 1 = failAt
        THEN [evaluated EXCEPT !.calls = @ + 2, !.err = "storeError"]
        ELSE rangeItems([evaluated EXCEPT !.calls = @ + 1, !.store[i] = written],
                        i + 1, t0, d, failAt)

rangeItem(st, i, n, tc, t0, d, failAt) ==
    LET \* n.Annotations is shared with the copy appended to badNodes
        written == [n EXCEPT !.annotations =
                       MapSet(@, annotationNodeNotReadyTick, Sprintf(tc.count))]
        shared == IF tc.updated /\ ~n.annotations.isNil THEN written ELSE n
        evaluated ==
            [st EXCEPT
               !.ticks = Append(@, tc),
               !.seen = Append(@,
                   [had |-> MapHas(n.annotations, annotationNodeNotReadyTick),
                    text |-> MapGet(n.annotations, annotationNodeNotReadyTick, <<>>),
                    notReady |-> nodeNotReady(n, t0)]),
               !.badNodes = IF reachedThreshold(tc.count, d.notReadyTickThreshold)
                            THEN Append(@, shared) ELSE @]
    IN  IF ~tc.updated
        THEN rangeItems(evaluated, i + 1, t0, d, failAt)
        ELSE IF n.annotations.isNil
        THEN [evaluated EXCEPT !.err = "panic"]
        ELSE IF st.calls + 1 = failAt
        THEN [evaluated EXCEPT !.calls = @ + 1, !.err = "storeError"]
        ELSE rangeItems([evaluated EXCEPT !.calls = @ + 1, !.store[i] = written],
                        i + 1, t0, d, failAt)

\* The loop over nodeList.Items of DetectBadNodes, from item i on.
rangeItems(st, i, t0, d, failAt) ==
    IF i > Len(st.store) THEN st
    ELSE rangeItem(st, i, st.store[i], nodeNotReadyTickCount(st.store[i], t0),
                   t0, d, failAt)

\* variant: a list as long as the limit is cut as well
TruncateAtLimit(badNodes, maxNodeTermination) ==
    IF Len(badNodes) >= maxNodeTermination
    THEN SubSeq(badNodes, 1, maxNodeTermination - 1)
    ELSE badNodes

\* variant: the list is not cut
TruncateNone(badNodes, maxNodeTermination) == badNodes

\* badNodes[:maxNodeTermination] when the list is longer
Truncate(badNodes, maxNodeTermination) ==
    IF Len(badNodes) > maxNodeTermination
    THEN SubSeq(badNodes, 1, maxNodeTermination)
    ELSE badNodes

\* What a call left behind: the returned list and error, and the values its
\* local variables took (ticks: the tick update of each node evaluated;
\* seen: what that node's tick annotation and health were when evaluated;
\* candidates: badNodes after the loop; total: len(nodeList.Items);
\* limit: maxNodeTermination; stage: how far the call got; at: the clock
\* reading of the call; calls: the store calls made by List and the loop;
\* lock: what timeLock.Lock returned, "none" when it was not called).
NoResult ==
    [op |-> "none", err |-> "nil", nodes |-> <<>>, ticks |-> <<>>,
     seen |-> <<>>, candidates |-> <<>>, total |-> 0, limit |-> 0,
     stage |-> "none", at |-> 0, calls |-> 0, lock |-> "none"]

\* DetectBadNodes after its loop: loop is what the loop left, store the
\* listed nodes.
\* variant: the lock is taken only by a call that returns nodes
selectBadNodesLockWhenFound(loop, store, nsAnnotations, t0, d, failAt) ==
    LET filtered == removeMultipleMasterNodes(loop.badNodes)
        maxNodeTermination ==
            maximumNodeTermination(Len(store), d.maxNodeTerminationPercentage)
        badNodes == Truncate(filtered, maxNodeTermination)
        l == IF badNodes = <<>>
             THEN [ns |-> nsAnnotations, err |-> "nil"]
             ELSE Lock(nsAnnotations, d.lockName, t0,
                       d.pauseBetweenTermination,
                       [k \in 1..3 |-> loop.calls + k = failAt])
        base == [NoResult EXCEPT !.op = "DetectBadNodes",
                                 !.ticks = loop.ticks, !.seen = loop.seen,
                                 !.total = Len(store), !.at = t0,
                                 !.calls = loop.calls]
    IN  IF loop.err # "nil"
        THEN [store |-> loop.store, ns |-> nsAnnotations,
              ret |-> [base EXCEPT !.err = loop.err, !.stage = "loop"]]
        ELSE IF IsAlreadyExists(l.err) \/ l.err = "nil"
        THEN [store |-> loop.store, ns |-> l.ns,
              ret |-> [base EXCEPT !.nodes = badNodes, !.stage = "done",
                                   !.candidates = loop.badNodes,
                                   !.limit = maxNodeTermination,
                                   !.lock = l.err]]
        ELSE [store |-> loop.store, ns |-> l.ns,
              ret |-> [base EXCEPT !.err = l.err, !.stage = "lock",
                                   !.candidates = loop.badNodes,
                                   !.limit = maxNodeTermination,
                                   !.lock = l.err]]

\* variant: a call that ends in an error puts the listed nodes back
selectBadNodesRollback(loop, store, nsAnnotations, t0, d, failAt) ==
    LET filtered == removeMultipleMasterNodes(loop.badNodes)
        maxNodeTermination ==
            maximumNodeTermination(Len(store), d.maxNodeTerminationPercentage)
        badNodes == Truncate(filtered, maxNodeTermination)
        l == Lock(nsAnnotations, d.lockName, t0,
                  d.pauseBetweenTermination,
                  [k \in 1..3 |-> loop.calls + k = failAt])
        base == [NoResult EXCEPT !.op = "DetectBadNodes",
                                 !.ticks = loop.ticks, !.seen = loop.seen,
                                 !.total = Len(store), !.at = t0,
                                 !.calls = loop.calls]
    IN  IF loop.err # "nil"
        THEN [store |-> store, ns |-> nsAnnotations,
              ret |-> [base EXCEPT !.err = loop.err, !.stage = "loop"]]
        ELSE IF IsAlreadyExists(l.err) \/ l.err = "nil"
        THEN [store |-> loop.store, ns |-> l.ns,
              ret |-> [base EXCEPT !.nodes = badNodes, !.stage = "done",
                                   !.candidates = loop.badNodes,
                                   !.limit = maxNodeTermination,
                                   !.lock = l.err]]
        ELSE [store |-> store, ns |-> l.ns,
              ret |-> [base EXCEPT !.err = l.err, !.stage = "lock",
                                   !.candidates = loop.badNodes,
                                   !.limit = maxNodeTermination,
                                   !.lock = l.err]]

selectBadNodes(loop, store, nsAnnotations, t0, d, failAt) ==
    LET filtered == removeMultipleMasterNodes(loop.badNodes)
        maxNodeTermination ==
            maximumNodeTermination(Len(store), d.maxNodeTerminationPercentage)
        badNodes == Truncate(filtered, maxNodeTermination)
        l == Lock(nsAnnotations, d.lockName, t0,
                  d.pauseBetweenTermination,
                  [k \in 1..3 |-> loop.calls + k = failAt])
        base == [NoResult EXCEPT !.op = "DetectBadNodes",
                                 !.ticks = loop.ticks, !.seen = loop.seen,
                                 !.total = Len(store), !.at = t0,
                                 !.calls = loop.calls]
    IN  IF loop.err # "nil"
        THEN [store |-> loop.store, ns |-> nsAnnotations,
              ret |-> [base EXCEPT !.err = loop.err, !.stage = "loop"]]
        ELSE IF IsAlreadyExists(l.err) \/ l.err = "nil"
        THEN [store |-> loop.store, ns |-> l.ns,
              ret |-> [base EXCEPT !.nodes = badNodes, !.stage = "done",
                                   !.candidates = loop.badNodes,
                                   !.limit = maxNodeTermination,
                                   !.lock = l.err]]
        ELSE [store |-> loop.store, ns |-> l.ns,
              ret |-> [base EXCEPT !.err = l.err, !.stage = "lock",
                                   !.candidates = loop.badNodes,
                                   !.limit = maxNodeTermination,
                                   !.lock = l.err]]

\* One whole call of Detector.DetectBadNodes at clock reading t0.
\* Returns the store after the call and the call's result.
DetectBadNodesCall(store, nsAnnotations, t0, d, failAt) ==
    IF failAt = 1
    THEN [store |-> store, ns |-> nsAnnotations,
          ret |-> [NoResult EXCEPT !.op = "DetectBadNodes", !.stage = "list",
                                   !.err = "storeError", !.at = t0,
                                   !.calls = 1]]
    ELSE selectBadNodes(rangeItems([store |-> store, badNodes |-> <<>>,
                                    ticks |-> <<>>, seen |-> <<>>,
                                    calls |-> 1, err |-> "nil"],
                                   1, t0, d, failAt),
                        store, nsAnnotations, t0, d, failAt)

(***************************************************************************)
(* The store's objects                                                     *)
(***************************************************************************)
NodeName(i) == <<"node", i>>

RoleLabels(role) == [isNil |-> FALSE, kv |-> [k \in {labelNodeRole} |-> role]]

TickAnnotation(text) ==
    [isNil |-> FALSE, kv |-> [k \in {annotationNodeNotReadyTick} |-> text]]

Condition(type, status, heartbeat, transition) ==
    [type |-> type, status |-> status,
     lastHeartbeatTime |-> heartbeat, lastTransitionTime |-> transition]

Node(name, labels, annotations, conditions) ==
    [name |-> name, labels |-> labels, annotations |-> annotations,
     conditions |-> conditions]

\* all sequences over S of length 0..n
SeqsUpTo(S, n) == UNION {[1..k -> S] : k \in 0..n}

\* the text of a node's tick annotation, and whether it has one
TickText(n) == MapGet(n.annotations, annotationNodeNotReadyTick, <<>>)

HasTick(n) == MapHas(n.annotations, annotationNodeNotReadyTick)

\* the model starts no call when a counter is already above MaxTick
TicksBounded(store) ==
    \A i \in 1..Len(store) : Atoi(TickText(store[i])).val <= MaxTick

Idle == [fn |-> "none"]

(***************************************************************************)
(* Specification Spec: a cluster, its kubelets, the clock and repeated     *)
(* DetectBadNodes calls of one detector.                                   *)
(***************************************************************************)
\* what the annotations of a node may be when the detector first sees it
InitAnnotations ==
    {EmptyMap, TickAnnotation(<<"x">>), TickAnnotation(<<"-", "1">>)}

\* the cluster's nodes are masters and workers in turn
RoleOf(i) == IF i % 2 = 1 THEN labelNodeRoleMaster ELSE labelNodeRoleWorker

\* Config.PauseBetweenTermination: 30 seconds, or the shortest duration the
\* clock resolves
Pauses == {30 * Second, 1}

Init ==
    /\ \E k \in 0..MaxNodes :
         \E anns \in [1..k -> InitAnnotations] :
           nodes = [i \in 1..k |->
                      Node(NodeName(i), RoleLabels(RoleOf(i)), anns[i],
                           <<Condition(NodeReady, ConditionTrue, 0, 0)>>)]
    /\ ns = EmptyMap
    /\ now = 0
    /\ cfg \in {NewDetector([LockName |-> <<"detector">>,
                             MaxNodeTerminationPercentage |-> 0,
                             NotReadyTickThreshold |-> 2,
                             PauseBetweenTermination |-> p]) : p \in Pauses}
    /\ ret = NoResult
    /\ calc = Idle
    /\ callers = <<>>

\* the operator calls DetectBadNodes; store call number failAt fails
DetectBadNodes(failAt) ==
    /\ TicksBounded(nodes)
    /\ \E call \in {DetectBadNodesCall(nodes, ns, now, cfg, failAt)} :
         /\ nodes' = call.store
         /\ ns' = call.ns
         /\ ret' = call.ret
    /\ UNCHANGED <<now, cfg, calc, callers>>

\* the kubelet of node i posts its Ready condition
NodeStatusUpdate(i, status) ==
    /\ i \in 1..Len(nodes)
    /\ LET old == nodes[i].conditions[1]
       IN  nodes' = [nodes EXCEPT ![i].conditions =
                        <<Condition(NodeReady, status, now,
                                    IF old.status = status
                                    THEN old.lastTransitionTime ELSE now)>>]
    /\ UNCHANGED <<ns, now, cfg, ret, calc, callers>>

\* time passes
AdvanceClock(d) ==
    /\ now + d <= MaxTime * Second
    /\ now' = now + d
    /\ UNCHANGED <<nodes, ns, cfg, ret, calc, callers>>

\* the store calls of one DetectBadNodes: List, at most one Update per
\* node, and the three of TimeLock.Lock
StoreCalls(n) == n + 4

Next ==
    \/ \E failAt \in 0..StoreCalls(MaxNodes) : DetectBadNodes(failAt)
    \/ \E i \in 1..MaxNodes :
         \E status \in {ConditionTrue, ConditionFalse} : NodeStatusUpdate(i, status)
    \/ AdvanceClock(nodeNotReadyDuration * Second)

Spec == Init /\ [][Next]_vars

(***************************************************************************)
(* Specification SpecPass: DetectBadNodes calls on every store content of  *)
(* a bounded set, at a fixed clock reading.                                *)
(***************************************************************************)
PassTime == nodeNotReadyDuration * Second

\* Ready for the kubelet's last report / not Ready for 30 seconds
HealthyConditions == <<Condition(NodeReady, ConditionTrue, PassTime, 0)>>

UnhealthyConditions == <<Condition(NodeReady, ConditionFalse, 0, 0)>>

PassKind(labels, annotations, conditions) ==
    [labels |-> labels, annotations |-> annotations, conditions |-> conditions]

\* what a node of the store may be: masters and workers below the
\* threshold, about to reach it, with a garbage annotation or with none; a
\* node without labels; nodes whose annotation map is nil
PassKinds ==
    {PassKind(RoleLabels(labelNodeRoleMaster), a, UnhealthyConditions) :
        a \in {TickAnnotation(<<"1">>), TickAnnotation(<<"x">>)}}
    \cup
    {PassKind(RoleLabels(labelNodeRoleMaster), EmptyMap, HealthyConditions)}
    \cup
    {PassKind(RoleLabels(labelNodeRoleWorker), a, c) :
        a \in {TickAnnotation(<<"1">>), TickAnnotation(<<"x">>)},
        c \in {HealthyConditions, UnhealthyConditions}}
    \cup
    {PassKind(RoleLabels(labelNodeRoleWorker), EmptyMap, HealthyConditions),
     PassKind(NilMap, TickAnnotation(<<"1">>), UnhealthyConditions),
     PassKind(RoleLabels(labelNodeRoleWorker), NilMap, HealthyConditions),
     PassKind(RoleLabels(labelNodeRoleWorker), NilMap, UnhealthyConditions)}

PassConfig(p) ==
    [LockName |-> <<"detector">>, MaxNodeTerminationPercentage |-> p,
     NotReadyTickThreshold |-> 2, PauseBetweenTermination |-> 0]

\* the coordination record's annotations and the configured percentage
PassSetups ==
    {[ns |-> EmptyMap, config |-> PassConfig(0)],
     [ns |-> EmptyMap, config |-> PassConfig(50)],
     [ns |-> NilMap, config |-> PassConfig(50)]}

InitPass ==
    /\ \E k \in 0..MaxPassNodes :
         \E kinds \in [1..k -> PassKinds] :
           nodes = [i \in 1..k |->
                      Node(NodeName(i), kinds[i].labels, kinds[i].annotations,
                           kinds[i].conditions)]
    /\ \E setup \in PassSetups :
         /\ ns = setup.ns
         /\ cfg = NewDetector(setup.config)
    /\ now = PassTime
    /\ ret = NoResult
    /\ calc = Idle
    /\ callers = <<>>

NextPass == \E failAt \in 0..StoreCalls(MaxPassNodes) : DetectBadNodes(failAt)

SpecPass == InitPass /\ [][NextPass]_vars

(***************************************************************************)
(* Specification SpecPure: one call of a function of the detector package  *)
(* on every input of a bounded set.                                        *)
(***************************************************************************)
PureTime == 2 * nodeNotReadyDuration * Second

\* the condition's timestamp is 30 seconds old, or one clock unit younger
PureTimes == {PureTime - nodeNotReadyDuration * Second,
              PureTime - nodeNotReadyDuration * Second + 1}

PureConditions ==
    {Condition(type, status, hb, tr) :
        type \in {NodeReady, NodeDiskFull},
        status \in {ConditionTrue, ConditionFalse, ConditionUnknown},
        hb \in PureTimes, tr \in PureTimes}

TickTexts ==
    {<<>>, <<"x">>, <<"-">>, <<"1", "x">>, <<"0">>, <<"5">>, <<"0", "7">>,
     <<"1", "0">>, <<"+", "1">>, <<"-", "2">>}

PureAnnotations == {NilMap, EmptyMap} \cup {TickAnnotation(t) : t \in TickTexts}

\* the labels of a node handed to removeMultipleMasterNodes
SelectorLabels ==
    {NilMap, EmptyMap, RoleLabels(labelNodeRoleMaster),
     RoleLabels(labelNodeRoleWorker)}

PureInputs ==
    {[fn |-> "node", n |-> Node(NodeName(1), EmptyMap, a, c), t0 |-> PureTime] :
        a \in PureAnnotations, c \in SeqsUpTo(PureConditions, MaxConds)}
    \cup
    {[fn |-> "nodeList",
      nodeList |-> [i \in 1..Len(ls) |-> Node(NodeName(i), ls[i], EmptyMap, <<>>)]] :
        ls \in SeqsUpTo(SelectorLabels, MaxLen)}
    \cup
    {[fn |-> "limit", nodeCount |-> n, hundredths |-> h] :
        n \in 1..MaxNodeCount, h \in 1..100}
    \cup
    {[fn |-> "limit", nodeCount |-> 1000, hundredths |-> 25]}
    \cup
    {[fn |-> "badNodes",
      nodeList |-> [i \in 1..Len(ls) |-> Node(NodeName(i), ls[i], EmptyMap, <<>>)],
      limit |-> l] :
        ls \in SeqsUpTo(SelectorLabels, MaxLen), l \in 1..(MaxLen + 1)}

InitPure ==
    /\ nodes = <<>>
    /\ ns = EmptyMap
    /\ now = PureTime
    /\ cfg = NewDetector([LockName |-> <<"detector">>,
                          MaxNodeTerminationPercentage |-> 0,
                          NotReadyTickThreshold |-> 0,
                          PauseBetweenTermination |-> 0])
    /\ ret = NoResult
    /\ calc \in PureInputs
    /\ callers = <<>>

CallNodeNotReady ==
    /\ calc.fn = "node"
    /\ calc' = [fn |-> "nodeNotReady", n |-> calc.n, t0 |-> calc.t0,
                out |-> nodeNotReady(calc.n, calc.t0)]
    /\ UNCHANGED <<nodes, ns, now, cfg, ret, callers>>

CallNodeNotReadyTickCount ==
    /\ calc.fn = "node"
    /\ calc' = [fn |-> "nodeNotReadyTickCount", n |-> calc.n, t0 |-> calc.t0,
                out |-> nodeNotReadyTickCount(calc.n, calc.t0)]
    /\ UNCHANGED <<nodes, ns, now, cfg, ret, callers>>

CallRemoveMultipleMasterNodes ==
    /\ calc.fn = "nodeList"
    /\ calc' = [fn |-> "removeMultipleMasterNodes", nodeList |-> calc.nodeList,
                out |-> removeMultipleMasterNodes(calc.nodeList)]
    /\ UNCHANGED <<nodes, ns, now, cfg, ret, callers>>

CallMaximumNodeTermination ==
    /\ calc.fn = "limit"
    /\ calc' = [fn |-> "maximumNodeTermination", nodeCount |-> calc.nodeCount,
                hundredths |-> calc.hundredths,
                out |-> maximumNodeTermination(calc.nodeCount, calc.hundredths)]
    /\ UNCHANGED <<nodes, ns, now, cfg, ret, callers>>

\* lines 139-148 of detector.go: the single-master filter, then the cut to
\* the limit
Selector(badNodes, maxNodeTermination) ==
    Truncate(removeMultipleMasterNodes(badNodes), maxNodeTermination)

\* the two filters applied to a list, and applied again to their result
CallSelector ==
    /\ calc.fn = "badNodes"
    /\ calc' = [fn |-> "selector", nodeList |-> calc.nodeList,
                limit |-> calc.limit,
                out |-> Selector(calc.nodeList, calc.limit),
                again |-> Selector(Selector(calc.nodeList, calc.limit),
                                   calc.limit)]
    /\ UNCHANGED <<nodes, ns, now, cfg, ret, callers>>

NextPure ==
    \/ CallNodeNotReady
    \/ CallNodeNotReadyTickCount
    \/ CallRemoveMultipleMasterNodes
    \/ CallMaximumNodeTermination
    \/ CallSelector

SpecPure == InitPure /\ [][NextPure]_vars

(***************************************************************************)
(* Specification SpecLock: two owners call TimeLock.Lock and               *)
(* TimeLock.ClearLock on one namespace, and a detector whose lock name is  *)
(* owner a runs DetectBadNodes on a cluster without nodes, while the clock *)
(* runs.                                                                   *)
(***************************************************************************)
Owners == {<<"a">>, <<"b">>}

\* TimeLock.ttl
LockTTL == 2 * Second

\* the namespace's annotations when the first call is made: none (a nil
\* map), an empty map, an expiry of owner a that is not in the layout, an
\* annotation under the bare name of owner a
LockInitAnnotations ==
    {NilMap, EmptyMap,
     MapSet(EmptyMap, lockName(<<"a">>), GarbageTime),
     MapSet(EmptyMap, <<"a">>, GarbageTime)}

InitLock ==
    /\ nodes = <<>>
    /\ ns \in LockInitAnnotations
    /\ now = 0
    /\ cfg = NewDetector([LockName |-> <<"a">>,
                          MaxNodeTerminationPercentage |-> 0,
                          NotReadyTickThreshold |-> 0,
                          PauseBetweenTermination |-> LockTTL])
    /\ ret = NoResult
    /\ calc = Idle
    /\ callers = <<>>

\* owner component calls Lock; fails[k]: its k-th store call fails
LockCall(component, fails) ==
    /\ \E r \in {Lock(ns, component, now, LockTTL, fails)} :
         /\ ns' = r.ns
         /\ calc' = [fn |-> "Lock", component |-> component, err |-> r.err,
                     updated |-> r.ns # ns]
    /\ UNCHANGED <<nodes, now, cfg, ret, callers>>

\* owner component calls ClearLock
ClearLockCall(component, getFails, updateFails) ==
    /\ \E r \in {ClearLock(ns, component, getFails, updateFails)} :
         /\ ns' = r.ns
         /\ calc' = [fn |-> "ClearLock", component |-> component,
                     err |-> r.err, updated |-> r.updated]
    /\ UNCHANGED <<nodes, now, cfg, ret, callers>>

\* the clock moves by its smallest unit
LockClock ==
    /\ now + 1 <= MaxLockTime * Second
    /\ now' = now + 1
    /\ UNCHANGED <<nodes, ns, cfg, ret, calc, callers>>

NextLock ==
    \/ \E component \in Owners :
         \E fails \in [1..3 -> BOOLEAN] : LockCall(component, fails)
    \/ \E component \in Owners :
         \E getFails \in BOOLEAN, updateFails \in BOOLEAN :
           ClearLockCall(component, getFails, updateFails)
    \/ \E failAt \in 0..StoreCalls(0) : DetectBadNodes(failAt)
    \/ LockClock

SpecLock == InitLock /\ [][NextLock]_vars

(***************************************************************************)
(* Specification SpecRace: two callers run DetectBadNodes or               *)
(* TimeLock.Lock against the same store at the same time.  A step of a     *)
(* caller is one store call with the local computation that leads to it.   *)
(***************************************************************************)
Callers == 1..2

\* a caller that has not been started
IdleCaller ==
    [op |-> "none", pc |-> "idle", list |-> <<>>, i |-> 0, badNodes |-> <<>>,
     ticks |-> <<>>, nsCopy |-> EmptyMap, err |-> "nil", out |-> <<>>]

\* the store's list when the callers start: one node carrying "1", not
\* ready for 30 seconds or ready
RaceStores ==
    {<<Node(NodeName(1), RoleLabels(labelNodeRoleWorker),
            TickAnnotation(<<"1">>), c)>> :
        c \in {UnhealthyConditions, HealthyConditions}}

InitRace ==
    /\ nodes \in RaceStores
    /\ ns = EmptyMap
    /\ now = PassTime
    /\ cfg = NewDetector(PassConfig(0))
    /\ ret = NoResult
    /\ calc = Idle
    /\ callers = [p \in Callers |-> IdleCaller]

\* variant: the store adds the written change of the counter to its own
UpdateNodeAdd(store, i, listed, n) ==
    [store EXCEPT ![i].annotations =
        MapSet(@, annotationNodeNotReadyTick,
               Sprintf(Atoi(TickText(store[i])).val + Atoi(TickText(n)).val
                       - Atoi(TickText(listed)).val))]

\* k8sClient.Update(ctx, &n): the store's object becomes the written one
UpdateNode(store, i, listed, n) == [store EXCEPT ![i] = n]

\* variant: the store keeps a lock entry that is still ahead of the clock
UpdateNamespaceKeepHeld(stored, copy, component, t0) ==
    IF /\ MapHas(stored, lockName(component))
       /\ ~Parse(stored.kv[lockName(component)]).err
       /\ t0 < Parse(stored.kv[lockName(component)]).t
    THEN stored ELSE copy

\* k8sClient.Update(ctx, &ns): the store's object becomes the written one
UpdateNamespace(stored, copy, component, t0) == copy

\* the caller returns
Return(c, err, out) == [c EXCEPT !.pc = "done", !.err = err, !.out = out]

\* caller p starts DetectBadNodes: k8sClient.List
RaceList(p, fails) ==
    /\ callers[p].pc = "idle"
    /\ callers' = [callers EXCEPT ![p] =
          IF fails
          THEN Return([@ EXCEPT !.op = "DetectBadNodes"], "storeError", <<>>)
          ELSE [@ EXCEPT !.op = "DetectBadNodes", !.pc = "item",
                         !.list = nodes, !.i = 1]]
    /\ UNCHANGED <<nodes, ns, now, cfg, ret, calc>>

\* what the loop body of caller c does with item n and its tick update tc
RaceItemStep(c, n, tc, fails) ==
    LET written == [n EXCEPT !.annotations =
                       MapSet(@, annotationNodeNotReadyTick, Sprintf(tc.count))]
        shared == IF tc.updated /\ ~n.annotations.isNil THEN written ELSE n
        evaluated ==
            [c EXCEPT
               !.ticks = Append(@, tc),
               !.badNodes = IF reachedThreshold(tc.count, cfg.notReadyTickThreshold)
                            THEN Append(@, shared) ELSE @,
               !.i = @ + 1,
               !.pc = IF c.i = Len(c.list) THEN "isLocked" ELSE "item"]
    IN  IF ~tc.updated
        THEN [store |-> nodes, caller |-> evaluated]
        ELSE IF n.annotations.isNil
        THEN [store |-> nodes, caller |-> Return(evaluated, "panic", <<>>)]
        ELSE IF fails
        THEN [store |-> nodes, caller |-> Return(evaluated, "storeError", <<>>)]
        ELSE [store |-> UpdateNode(nodes, c.i, n, written), caller |-> evaluated]

\* caller p runs the loop body for its next item
RaceItem(p, fails) ==
    /\ callers[p].pc = "item"
    /\ \E r \in {RaceItemStep(callers[p], callers[p].list[callers[p].i],
                               nodeNotReadyTickCount(
                                   callers[p].list[callers[p].i], now),
                               fails)} :
         /\ nodes' = r.store
         /\ callers' = [callers EXCEPT ![p] = r.caller]
    /\ UNCHANGED <<ns, now, cfg, ret, calc>>

\* the list DetectBadNodes is about to return
RaceSelected(c) ==
    Truncate(removeMultipleMasterNodes(c.badNodes),
             maximumNodeTermination(Len(c.list), cfg.maxNodeTerminationPercentage))

\* what caller c does with the answer l of isLocked
RaceIsLockedStep(c, l) ==
    IF c.op = "Lock"
    THEN IF l.err # "nil" THEN Return(c, l.err, <<>>)
         ELSE IF l.locked THEN Return(c, "alreadyExists", <<>>)
         ELSE [c EXCEPT !.pc = "createGet"]
    ELSE IF l.err # "nil" THEN Return(c, l.err, <<>>)
         ELSE IF l.locked THEN Return(c, "nil", RaceSelected(c))
         ELSE [c EXCEPT !.pc = "createGet"]

\* caller p, inside Lock, runs isLocked; an idle caller starts a Lock
RaceIsLocked(p, fails) ==
    /\ callers[p].pc \in {"idle", "isLocked"}
    /\ callers' = [callers EXCEPT ![p] =
          RaceIsLockedStep(
              IF @.pc = "idle" THEN [@ EXCEPT !.op = "Lock"] ELSE @,
              isLocked(ns, cfg.lockName, now, fails))]
    /\ UNCHANGED <<nodes, ns, now, cfg, ret, calc>>

\* what caller c does with the answer r of createLock's Get and assignment
RaceCreateGetStep(c, r) ==
    IF r.err # "nil" THEN Return(c, r.err, <<>>)
    ELSE [c EXCEPT !.pc = "createUpdate", !.nsCopy = r.ns]

\* caller p, inside createLock, gets the namespace and sets its entry
RaceCreateGet(p, fails) ==
    /\ callers[p].pc = "createGet"
    /\ callers' = [callers EXCEPT ![p] =
          RaceCreateGetStep(@,
              createLock(ns, cfg.lockName, now,
                         cfg.pauseBetweenTermination, fails, FALSE))]
    /\ UNCHANGED <<nodes, ns, now, cfg, ret, calc>>

\* caller p, inside createLock, updates the namespace and returns
RaceCreateUpdate(p, fails) ==
    /\ callers[p].pc = "createUpdate"
    /\ ns' = IF fails THEN ns
             ELSE UpdateNamespace(ns, callers[p].nsCopy, cfg.lockName, now)
    /\ callers' = [callers EXCEPT ![p] =
          IF fails THEN Return(@, "storeError", <<>>)
          ELSE IF @.op = "Lock" THEN Return(@, "nil", <<>>)
          ELSE Return(@, "nil", RaceSelected(@))]
    /\ UNCHANGED <<nodes, now, cfg, ret, calc>>

\* a second passes
RaceClock ==
    /\ now + Second <= PassTime + MaxRaceTime * Second
    /\ now' = now + Second
    /\ UNCHANGED <<nodes, ns, cfg, ret, calc, callers>>

NextRace ==
    \/ \E p \in Callers, fails \in BOOLEAN : RaceList(p, fails)
    \/ \E p \in Callers, fails \in BOOLEAN : RaceItem(p, fails)
    \/ \E p \in Callers, fails \in BOOLEAN : RaceIsLocked(p, fails)
    \/ \E p \in Callers, fails \in BOOLEAN : RaceCreateGet(p, fails)
    \/ \E p \in Callers, fails \in BOOLEAN : RaceCreateUpdate(p, fails)
    \/ RaceClock

SpecRace == InitRace /\ [][NextRace]_vars

(***************************************************************************)
(* Claims                                                                  *)
(***************************************************************************)
IsMaster(n) == MapGet(n.labels, labelNodeRole, "") = labelNodeRoleMaster

Masters(list) == {i \in 1..Len(list) : IsMaster(list[i])}

\* the positions of a list that the single-master filter is to keep
Kept(list) ==
    {i \in 1..Len(list) :
        ~IsMaster(list[i]) \/ \A j \in 1..(i - 1) : ~IsMaster(list[j])}

\* the k-th smallest member of a set of positions
Nth(S, k) == CHOOSE i \in S : Cardinality({j \in S : j < i}) = k - 1

\* the list with only the positions of S, in order
Pick(list, S) == [k \in 1..Cardinality(S) |-> list[Nth(S, k)]]

\* C2: removeMultipleMasterNodes returns its input without the masters after
\* the first one: every non-master and the first master are kept, in their
\* original order, and an input with at most one master comes back unchanged.
Thm_C2 ==
    calc.fn = "removeMultipleMasterNodes" =>
        /\ calc.out = Pick(calc.nodeList, Kept(calc.nodeList))
        /\ Cardinality(Masters(calc.nodeList)) <= 1 => calc.out = calc.nodeList
        /\ Cardinality(Masters(calc.out)) <= 1
        /\ \A i \in 1..Len(calc.nodeList) :
             ~IsMaster(calc.nodeList[i]) =>
                \E k \in 1..Len(calc.out) : calc.out[k] = calc.nodeList[i]

\* a worker, then masters with a worker between them: the later masters go
Wit_C2 ==
    /\ calc.fn = "removeMultipleMasterNodes"
    /\ Cardinality(Masters(calc.nodeList)) >= 2
    /\ Len(calc.nodeList) = 4
    /\ ~IsMaster(calc.nodeList[1])
    /\ ~IsMaster(calc.nodeList[3])
    /\ Len(calc.out) = 3
    /\ calc.out = <<calc.nodeList[1], calc.nodeList[2], calc.nodeList[3]>>

\* n * h / 100 rounded to the nearest integer, a half away from zero
RoundHalfAway(n, h) == (n * h + 50) \div 100

\* n * h / 100 rounded to the nearest integer, a half to the even neighbour
RoundHalfEven(n, h) ==
    IF (n * h) % 100 = 50 /\ ((n * h - 50) \div 100) % 2 = 0
    THEN (n * h - 50) \div 100
    ELSE (n * h + 50) \div 100

Max(a, b) == IF a >= b THEN a ELSE b

\* C4 as stated: maximumNodeTermination(n, p) equals max(1, round(n * p)) for
\* every n > 0 and p in (0, 1], with round either of the two standard
\* conventions.
Cex_C4 ==
    calc.fn = "maximumNodeTermination" =>
        calc.out \in {Max(1, RoundHalfAway(calc.nodeCount, calc.hundredths)),
                      Max(1, RoundHalfEven(calc.nodeCount, calc.hundredths))}

\* C4, amended: maximumNodeTermination(n, p) is never below 1, it is 1 when
\* n * p is below one half, otherwise it is an integer nearest to n * p: the
\* rounded value when n * p is not an exact half, either neighbour when it
\* is; and the five values of the tests hold.
Thm_C4 ==
    calc.fn = "maximumNodeTermination" =>
        LET x == calc.nodeCount * calc.hundredths
            example(n, h, limit) ==
                (calc.nodeCount = n /\ calc.hundredths = h) => calc.out = limit
        IN  /\ calc.out >= 1
            /\ x < 50 => calc.out = 1
            /\ x >= 50 => /\ 100 * calc.out - x <= 50
                          /\ x - 100 * calc.out <= 50
            /\ (x % 100 # 50) =>
                  calc.out = (IF x < 50 THEN 1 ELSE (x + 50) \div 100)
            /\ example(10, 50, 5)
            /\ example(10, 1, 1)
            /\ example(3, 10, 1)
            /\ example(10, 23, 2)
            /\ example(1000, 25, 250)

\* an exact half that the float64 product misses: 45 * 0.70 gives 31
Wit_C4 ==
    /\ calc.fn = "maximumNodeTermination"
    /\ calc.nodeCount = 45
    /\ calc.hundredths = 70
    /\ calc.out = 31

\* the count the tick annotation of n stands for when it parses
ParsedTick(n) == Atoi(TickText(n)).val

TickParses(n) == HasTick(n) /\ ~Atoi(TickText(n)).err

\* C5: for a node whose counter parses to c the tick update returns
\* (c + 1, true) when the node is evaluated unhealthy, (c - 1, true) when it
\* is healthy and c > 0, (0, false) when it is healthy and c = 0 or there is
\* no annotation; the count moves by at most 1.
Thm_C5 ==
    calc.fn = "nodeNotReadyTickCount" =>
        LET c == IF HasTick(calc.n) THEN ParsedTick(calc.n) ELSE 0
            unhealthy == nodeNotReady(calc.n, calc.t0)
        IN  (TickParses(calc.n) \/ ~HasTick(calc.n)) =>
               /\ unhealthy => calc.out = [count |-> c + 1, updated |-> TRUE]
               /\ (~unhealthy /\ c > 0) =>
                     calc.out = [count |-> c - 1, updated |-> TRUE]
               /\ (~unhealthy /\ c = 0) =>
                     calc.out = [count |-> 0, updated |-> FALSE]
               /\ calc.out.count - c \in {-1, 0, 1}

\* a healthy node at count 5 goes to (4, true)
Wit_C5 ==
    /\ calc.fn = "nodeNotReadyTickCount"
    /\ TickText(calc.n) = <<"5">>
    /\ ~nodeNotReady(calc.n, calc.t0)
    /\ calc.out = [count |-> 4, updated |-> TRUE]

\* the positions of the conditions of a type in a node's condition list
ConditionsOf(n, type) ==
    {i \in 1..Len(n.conditions) : n.conditions[i].type = type}

\* C8: a node with one readiness condition is unhealthy exactly when that
\* condition is not true and its last transition is at least 30 seconds
\* old; a node with no readiness condition is healthy.
Cex_C8 ==
    (calc.fn = "nodeNotReady"
        /\ Cardinality(ConditionsOf(calc.n, NodeReady)) <= 1) =>
        calc.out =
           (\E i \in ConditionsOf(calc.n, NodeReady) :
               /\ calc.n.conditions[i].status # ConditionTrue
               /\ calc.t0 - calc.n.conditions[i].lastTransitionTime
                     >= nodeNotReadyDuration * Second)

\* C9: a node whose readiness is true and whose DiskFull condition has been
\* true for at least 30 seconds is unhealthy and its tick count goes up by
\* one; with DiskFull true for less than 30 seconds it is healthy.
Cex_C9 ==
    LET n == calc.n
        ready == \A i \in ConditionsOf(n, NodeReady) :
                    n.conditions[i].status = ConditionTrue
        age(i) == calc.t0 - n.conditions[i].lastHeartbeatTime
        since(i) == calc.t0 - n.conditions[i].lastTransitionTime
        full(i) == n.conditions[i].status = ConditionTrue
        diskFullLong ==
            \E i \in ConditionsOf(n, NodeDiskFull) :
                /\ full(i)
                /\ age(i) >= nodeNotReadyDuration * Second
                /\ since(i) >= nodeNotReadyDuration * Second
        diskFullShort ==
            \A i \in ConditionsOf(n, NodeDiskFull) :
                full(i) => /\ age(i) < nodeNotReadyDuration * Second
                           /\ since(i) < nodeNotReadyDuration * Second
    IN  /\ (calc.fn = "nodeNotReady" /\ ready /\ diskFullLong) => calc.out
        /\ (calc.fn = "nodeNotReady" /\ ready /\ diskFullShort) => ~calc.out
        /\ (calc.fn = "nodeNotReadyTickCount" /\ ready /\ diskFullLong
               /\ TickParses(n)) =>
              calc.out = [count |-> ParsedTick(n) + 1, updated |-> TRUE]

(***************************************************************************)
(* Claims about a DetectBadNodes call                                      *)
(***************************************************************************)
Returned == ret.op = "DetectBadNodes" /\ ret.stage = "done"

\* C1: the list returned by a DetectBadNodes call holds at most one node
\* whose role label is master.
Thm_C1 == Returned => Cardinality(Masters(ret.nodes)) <= 1

\* two masters reached the threshold and one of them is returned with
\* another node
Wit_C1 ==
    /\ Returned
    /\ Cardinality(Masters(ret.candidates)) >= 2
    /\ Cardinality(Masters(ret.nodes)) = 1
    /\ Len(ret.nodes) >= 2

\* max(1, round(n * h / 100)), halves rounded up
ClaimLimit(n, h) == IF 2 * n * h < 100 THEN 1 ELSE (2 * n * h + 100) \div 200

Written(i) == i < Len(ret.ticks) \/ ret.stage \in {"lock", "done"}

\* C6: a tick annotation that is present but does not parse never makes the
\* tick update fail: the update gives (1, true) for an unhealthy node and
\* (0, true) for a healthy one, and the pass writes "1" or "0" to the node.
Thm_C6 ==
    ret.op = "DetectBadNodes" =>
        \A i \in 1..Len(ret.ticks) :
            (ret.seen[i].had /\ Atoi(ret.seen[i].text).err) =>
                LET count == IF ret.seen[i].notReady THEN 1 ELSE 0
                IN  /\ ret.ticks[i] = [count |-> count, updated |-> TRUE]
                    /\ (ret.stage = "loop" /\ i = Len(ret.ticks)) =>
                          ret.err = "storeError"
                    /\ Written(i) => TickText(nodes[i]) = Sprintf(count)
                    /\ Written(i) => Sprintf(count) \in {<<"0">>, <<"1">>}

\* a healthy node annotated "x" was reset and now carries "0"
Wit_C6 ==
    /\ Returned
    /\ \E i \in 1..Len(ret.ticks) :
          /\ ret.seen[i].text = <<"x">>
          /\ ~ret.seen[i].notReady
          /\ ret.ticks[i] = [count |-> 0, updated |-> TRUE]
          /\ TickText(nodes[i]) = <<"0">>

\* C7: the count returned by the tick update and the count persisted on the
\* node are never negative.
Cex_C7 ==
    ret.op = "DetectBadNodes" =>
        \A i \in 1..Len(ret.ticks) :
            /\ ret.ticks[i].count >= 0
            /\ (Written(i) /\ TickParses(nodes[i])) => ParsedTick(nodes[i]) >= 0

\* the positions of the store's list whose updated count reached the
\* threshold
AtThreshold ==
    {i \in 1..Len(ret.ticks) : ret.ticks[i].count >= cfg.notReadyTickThreshold}

\* the position in the store's list of the k-th returned node
PositionOf(k) == CHOOSE i \in 1..Len(nodes) : nodes[i] = ret.nodes[k]

\* C10: before the selector filters the candidates are exactly the nodes
\* whose count as updated in this pass is at or above the threshold, in the
\* order of the store's list; every returned node is one of them and the
\* returned list is a subsequence of the store's list.
Thm_C10 ==
    Returned =>
        /\ Len(ret.ticks) = Len(nodes)
        /\ ret.candidates = Pick(nodes, AtThreshold)
        /\ \A k \in 1..Len(ret.nodes) :
              \E i \in AtThreshold : ret.nodes[k] = nodes[i]
        /\ \A k, l \in 1..Len(ret.nodes) :
              k < l => PositionOf(k) < PositionOf(l)

\* a node that reached the threshold in this very pass is returned, another
\* node of the list is not
Wit_C10 ==
    /\ Returned
    /\ Len(ret.nodes) >= 1
    /\ Len(ret.nodes) < Len(nodes)
    /\ \E i \in AtThreshold :
          /\ ret.seen[i].text = <<"1">>
          /\ ret.ticks[i].count = cfg.notReadyTickThreshold
          /\ \E k \in 1..Len(ret.nodes) : ret.nodes[k] = nodes[i]
    /\ \E i \in 1..Len(nodes) : i \notin AtThreshold

(***************************************************************************)
(* Claims about the time lock                                              *)
(***************************************************************************)
\* the step is a Lock call of owner component
LockTaken(component) ==
    /\ calc'.fn = "Lock"
    /\ calc'.component = component
    /\ <<calc, ns>>' # <<calc, ns>>
    /\ ret' = ret

\* the step is a ClearLock call of owner component
ClearLockTaken(component) ==
    /\ calc'.fn = "ClearLock"
    /\ calc'.component = component
    /\ <<calc, ns>>' # <<calc, ns>>
    /\ ret' = ret

HasEntry(m, component) == MapHas(m, lockName(component))

\* the instant an entry of the namespace stands for
Expiry(m, component) == Parse(m.kv[lockName(component)]).t

EntryParses(m, component) == ~Parse(m.kv[lockName(component)]).err

\* C11: with the store answering, a Lock of an owner without an entry
\* succeeds and stores the expiry now + ttl; a Lock before the stored expiry
\* fails with alreadyExists; a Lock once the ttl has elapsed succeeds and
\* overwrites the entry with now + ttl.
Cex_C11 ==
    [][\A component \in Owners :
         (LockTaken(component) /\ calc'.err # "storeError") =>
            /\ ~HasEntry(ns, component) =>
                  /\ calc'.err = "nil"
                  /\ HasEntry(ns', component)
                  /\ Expiry(ns', component) = now + LockTTL
            /\ (HasEntry(ns, component) /\ EntryParses(ns, component)
                  /\ now < Expiry(ns, component)) =>
                  /\ calc'.err = "alreadyExists"
                  /\ ns' = ns
            /\ (HasEntry(ns, component) /\ EntryParses(ns, component)
                  /\ now >= Expiry(ns, component)) =>
                  /\ calc'.err = "nil"
                  /\ Expiry(ns', component) = now + LockTTL]_vars

\* C12: a ClearLock that returns no error leaves no entry of its owner in
\* the namespace when there was one, and makes no store write when there
\* was none.
Cex_C12 ==
    [][\A component \in Owners :
         (ClearLockTaken(component) /\ calc'.err = "nil") =>
            /\ HasEntry(ns, component) => ~HasEntry(ns', component)
            /\ ~HasEntry(ns, component) => (~calc'.updated /\ ns' = ns)]_vars

\* C16 as stated: a Lock that finds an expiry of its owner that does not
\* parse writes now + ttl for the owner and succeeds.
Cex_C16 ==
    [][\A component \in Owners :
         (/\ LockTaken(component)
          /\ calc'.err # "storeError"
          /\ HasEntry(ns, component)
          /\ ~EntryParses(ns, component)) =>
            /\ calc'.err = "nil"
            /\ HasEntry(ns', component)
            /\ ns'.kv[lockName(component)] = Format(now + LockTTL)]_vars

\* C16: a Lock that finds an expiry of its owner that does not parse returns
\* the parse error (or the store error of its Get) and leaves the namespace
\* as it was; it neither succeeds nor answers alreadyExists.
Thm_C16 ==
    [][\A component \in Owners :
         (/\ LockTaken(component)
          /\ HasEntry(ns, component)
          /\ ~EntryParses(ns, component)) =>
            /\ calc'.err \in {"parseError", "storeError"}
            /\ ~calc'.updated
            /\ ns' = ns]_vars

\* owner a called Lock on its unparsable expiry, got the parse error, and
\* the expiry is still there
Wit_C16 ==
    /\ calc = [fn |-> "Lock", component |-> <<"a">>, err |-> "parseError",
               updated |-> FALSE]
    /\ HasEntry(ns, <<"a">>)
    /\ ~EntryParses(ns, <<"a">>)

(***************************************************************************)
(* Claims about the steps of DetectBadNodes                                *)
(***************************************************************************)
\* the step is a DetectBadNodes call
DetectTaken == ret' # ret /\ ret'.op = "DetectBadNodes"

\* the number of nodes the call of this step evaluated
Evaluated == Len(ret'.ticks)

\* the store calls of the loop up to item k: one Update for every node whose
\* tick update said updated
UpdateCalls(ticks, k) == Cardinality({i \in 1..k : ticks[i].updated})

\* C13: when List or a node's Update fails, the call returns the error and
\* no list, the failed write is not applied and not repeated, the nodes
\* after the failing one are neither evaluated nor written, and the
\* namespace is not read or written.
Thm_C13 ==
    [][(DetectTaken /\ ret'.err = "storeError" /\ ret'.stage \in {"list", "loop"}) =>
          /\ ret'.nodes = <<>>
          /\ ret'.lock = "none"
          /\ ns' = ns
          /\ ret'.stage = "list" => (Evaluated = 0 /\ ret'.calls = 1)
          /\ ret'.stage = "loop" =>
                /\ Evaluated \in 1..Len(nodes)
                /\ ret'.ticks[Evaluated].updated
          /\ ret'.calls = 1 + UpdateCalls(ret'.ticks, Evaluated)
          /\ Len(nodes') = Len(nodes)
          /\ \A i \in 1..Len(nodes) : i >= Evaluated => nodes'[i] = nodes[i]]_vars

\* the Update of the second of three nodes failed, and the third, which is
\* not ready, was left as it was
Wit_C13 ==
    /\ ret.op = "DetectBadNodes"
    /\ ret.stage = "loop"
    /\ ret.err = "storeError"
    /\ ret.nodes = <<>>
    /\ Len(nodes) = 3
    /\ Len(ret.ticks) = 2
    /\ ret.ticks[1].updated
    /\ nodeNotReady(nodes[3], now)
    /\ TickText(nodes[3]) = <<"1">>

Cex_C15 ==
    [][(/\ ret.op = "DetectBadNodes"
        /\ ret.err = "nil"
        /\ ret.nodes # <<>>
        /\ DetectTaken
        /\ ret'.at < ret.at + cfg.pauseBetweenTermination) =>
          ret'.nodes = <<>>]_vars

\* the counter a node carries: the parsed annotation, 0 without one
Counter(n) == IF HasTick(n) THEN ParsedTick(n) ELSE 0

CounterDefined(n) == ~HasTick(n) \/ TickParses(n)

\* the call of this step got through its loop: no Update failed
LoopDone == DetectTaken /\ ret'.stage \in {"done", "lock"}

\* node i is among the threshold candidates of the call of this step
CandidateIn(i) ==
    \E k \in 1..Len(ret'.candidates) : ret'.candidates[k] = nodes'[i]

\* C17: in a pass whose writes succeed, a node with counter c that is
\* evaluated unhealthy has the counter c + 1 persisted, and is a threshold
\* candidate of that pass exactly when c + 1 has reached the threshold; so
\* over unhealthy passes the counter never falls, rises by 1 per pass, and
\* from c < threshold the node is a candidate after threshold - c passes and
\* from then on.
Thm_C17 ==
    [][LoopDone =>
         \A i \in 1..Len(nodes) :
            (nodeNotReady(nodes[i], now) /\ CounterDefined(nodes[i])) =>
               /\ ret'.ticks[i] = [count |-> Counter(nodes[i]) + 1, updated |-> TRUE]
               /\ HasTick(nodes'[i])
               /\ TickText(nodes'[i]) = Sprintf(Counter(nodes[i]) + 1)
               /\ Counter(nodes'[i]) = Counter(nodes[i]) + 1
               /\ CandidateIn(i) <=>
                     Counter(nodes[i]) + 1 >= cfg.notReadyTickThreshold]_vars

\* a node without an annotation was seen unhealthy in three passes: it
\* carried "2" when the last pass began, carries "3" now and is a candidate
Wit_C17 ==
    /\ Returned
    /\ \E i \in 1..Len(ret.ticks) :
          /\ ret.seen[i].notReady
          /\ ret.seen[i].text = <<"2">>
          /\ ret.ticks[i].count = 3
          /\ TickText(nodes[i]) = <<"3">>
          /\ \E k \in 1..Len(ret.candidates) : ret.candidates[k] = nodes[i]

\* C18: in a pass whose writes succeed, a node with counter c >= 0 that is
\* evaluated healthy has c - 1 persisted when c > 0 and is not written when
\* c = 0; a node at 0 that is evaluated unhealthy goes to 1, and a node whose
\* new count is at most 1 is no candidate under a threshold of 2 or more.  So
\* a node at 0 whose unhealthy passes are each followed by a healthy one
\* stays within 0..1 and is never returned, and a node that stays healthy
\* reaches 0 after c passes and is not written again.
Thm_C18 ==
    [][LoopDone =>
         \A i \in 1..Len(nodes) :
            (CounterDefined(nodes[i]) /\ Counter(nodes[i]) >= 0) =>
               /\ (~nodeNotReady(nodes[i], now) /\ Counter(nodes[i]) > 0) =>
                     /\ ret'.ticks[i] = [count |-> Counter(nodes[i]) - 1,
                                         updated |-> TRUE]
                     /\ TickText(nodes'[i]) = Sprintf(Counter(nodes[i]) - 1)
               /\ (~nodeNotReady(nodes[i], now) /\ Counter(nodes[i]) = 0) =>
                     /\ ret'.ticks[i] = [count |-> 0, updated |-> FALSE]
                     /\ nodes'[i] = nodes[i]
               /\ (nodeNotReady(nodes[i], now) /\ Counter(nodes[i]) = 0) =>
                     /\ ret'.ticks[i] = [count |-> 1, updated |-> TRUE]
                     /\ TickText(nodes'[i]) = <<"1">>
               /\ (ret'.ticks[i].count <= 1 /\ cfg.notReadyTickThreshold >= 2) =>
                     /\ ~CandidateIn(i)
                     /\ \A k \in 1..Len(ret'.nodes) : ret'.nodes[k] # nodes'[i]]_vars

\* a node that had gone from no counter to "1" was seen healthy in the next
\* pass, is back at "0" and was not returned
Wit_C18 ==
    /\ Returned
    /\ cfg.notReadyTickThreshold >= 2
    /\ \E i \in 1..Len(ret.ticks) :
          /\ ~ret.seen[i].notReady
          /\ ret.seen[i].text = <<"1">>
          /\ ret.ticks[i] = [count |-> 0, updated |-> TRUE]
          /\ TickText(nodes[i]) = <<"0">>
          /\ \A k \in 1..Len(ret.nodes) : ret.nodes[k] # nodes[i]

\* the call of this step made the Update of node i and the Update succeeded
Applied(i) ==
    /\ i <= Len(ret'.ticks)
    /\ ret'.ticks[i].updated
    /\ ret'.stage \in {"lock", "done"} \/ i < Len(ret'.ticks)

\* C19: a call that ends in an error, from a node's Update or from the lock
\* handling, returns no list, and every node whose Update it had made
\* carries the new count in the store.
Thm_C19 ==
    [][(DetectTaken /\ ret'.err # "nil" /\ ret'.stage \in {"loop", "lock"}) =>
          /\ ret'.nodes = <<>>
          /\ \A i \in 1..Len(nodes) :
                Applied(i) =>
                   /\ HasTick(nodes'[i])
                   /\ TickText(nodes'[i]) = Sprintf(ret'.ticks[i].count)
                   /\ nodes'[i] = [nodes[i] EXCEPT !.annotations =
                          MapSet(@, annotationNodeNotReadyTick,
                                 Sprintf(ret'.ticks[i].count))]]_vars

\* the Update of the second node failed; the first node, seen with "1",
\* carries "2" in the store and the call returned no list
Wit_C19 ==
    /\ ret.op = "DetectBadNodes"
    /\ ret.stage = "loop"
    /\ ret.err = "storeError"
    /\ ret.nodes = <<>>
    /\ Len(ret.ticks) = 2
    /\ ret.seen[1].text = <<"1">>
    /\ ret.ticks[1] = [count |-> 2, updated |-> TRUE]
    /\ TickText(nodes[1]) = <<"2">>

\* C20: a call makes exactly one Update for every node it evaluated whose
\* tick update said updated, and none for the others; a node whose Update
\* was made carries the decimal text of the new count and is otherwise as it
\* was; a node that is not updated, such as a healthy node with counter 0
\* or without the annotation, is left as it was.
Cex_C20 ==
    [][(DetectTaken /\ ret'.stage # "list") =>
          /\ ret'.calls = 1 + UpdateCalls(ret'.ticks, Evaluated)
          /\ \A i \in 1..Evaluated :
                /\ Applied(i) =>
                      nodes'[i] = [nodes[i] EXCEPT !.annotations =
                          MapSet(@, annotationNodeNotReadyTick,
                                 Sprintf(ret'.ticks[i].count))]
                /\ ~ret'.ticks[i].updated => nodes'[i] = nodes[i]
                /\ (/\ ~nodeNotReady(nodes[i], now)
                    /\ ~HasTick(nodes[i]) \/ TickText(nodes[i]) = <<"0">>) =>
                      /\ ~ret'.ticks[i].updated
                      /\ nodes'[i] = nodes[i]]_vars

(***************************************************************************)
(* Claims about the lock's expiry, its owners and the detector's use of it *)
(***************************************************************************)
\* owner component counts as locked at this instant
LockedNow(m, component) ==
    /\ HasEntry(m, component)
    /\ EntryParses(m, component)
    /\ now < Expiry(m, component)

Thm_C22 ==
    [][\A component \in Owners :
         /\ (LockTaken(component) /\ calc'.err = "alreadyExists") =>
               (ns' = ns /\ ~calc'.updated)
         /\ (DetectTaken /\ ret'.lock = "alreadyExists") => ns' = ns
         /\ LockedNow(ns, component) =>
               /\ HasEntry(ns', component)
               /\ ns'.kv[lockName(component)] = ns.kv[lockName(component)]
         /\ (/\ LockTaken(component)
             /\ calc'.err # "storeError"
             /\ HasEntry(ns, component)
             /\ EntryParses(ns, component)
             /\ now >= Expiry(ns, component)) => calc'.err = "nil"]_vars

\* a pass of the detector and a Lock of owner a have both found the lock of
\* owner a held, one unit before its expiry, and the expiry is the one that
\* was stored
Wit_C22 ==
    /\ ret.op = "DetectBadNodes"
    /\ ret.lock = "alreadyExists"
    /\ ret.at > 0
    /\ calc = [fn |-> "Lock", component |-> <<"a">>, err |-> "alreadyExists",
               updated |-> FALSE]
    /\ HasEntry(ns, <<"a">>)
    /\ ns.kv[lockName(<<"a">>)] = Format(LockTTL)
    /\ now = LockTTL - 1

\* the step in which caller p of SpecRace moves from one position to another
RaceMoved(p, from, to) == callers[p].pc \in from /\ callers'[p].pc = to

\* caller p ran Lock to the end and got no error
LockSucceeded(p) ==
    /\ callers[p].op = "Lock"
    /\ callers[p].pc = "done"
    /\ callers[p].err = "nil"

\* C23: Lock is a read followed by a write with nothing that ties them: a
\* caller goes on to createLock exactly when the record it read shows its
\* owner unlocked; the Update that succeeds makes the record the caller's
\* copy, expiry included, whatever entry the record holds at that moment,
\* also one a second caller wrote after the first one's read; and every Lock
\* that returned success wrote an expiry, of which the record holds the last
\* written.
Thm_C23 ==
    [][\A p \in Callers :
         /\ RaceMoved(p, {"idle", "isLocked"}, "createGet") =>
               ~LockedNow(ns, cfg.lockName)
         /\ (RaceMoved(p, {"createUpdate"}, "done") /\ callers'[p].err = "nil") =>
               /\ ns' = callers[p].nsCopy
               /\ HasEntry(ns', cfg.lockName)
         /\ (\A q \in Callers : LockSucceeded(q))' =>
               (\E q \in Callers :
                   ns'.kv[lockName(cfg.lockName)] =
                       callers'[q].nsCopy.kv[lockName(cfg.lockName)])]_vars

\* both callers ran Lock on the unlocked record within a second, both returned
\* success, they wrote different expiries and the record holds the second one
Wit_C23 ==
    /\ \A p \in Callers : LockSucceeded(p)
    /\ callers[1].nsCopy.kv[lockName(cfg.lockName)] = Format(PassTime + cfg.pauseBetweenTermination)
    /\ callers[2].nsCopy.kv[lockName(cfg.lockName)] = Format(PassTime + Second + cfg.pauseBetweenTermination)
    /\ ns = callers[2].nsCopy

\* caller p ran DetectBadNodes to the end and got no error
PassSucceeded(p) ==
    /\ callers[p].op = "DetectBadNodes"
    /\ callers[p].pc = "done"
    /\ callers[p].err = "nil"

\* the count caller p listed for node i
ListedCount(p, i) == Counter(callers[p].list[i])

\* caller p evaluated node i unhealthy: its tick update is the listed count
\* plus one
CountedUp(p, i) ==
    /\ Len(callers[p].ticks) >= i
    /\ callers[p].ticks[i].updated
    /\ callers[p].ticks[i].count = ListedCount(p, i) + 1

\* C24: the Update of a pass writes the node as the pass listed it, with the
\* counter the pass computed from the listed one, over whatever the store
\* holds.  So when two passes have succeeded and both evaluated the node
\* unhealthy, the persisted counter is c + 1 if both listed it at c, and
\* c + 2 if the second listed it after the first one's write, as it does when
\* the passes run one after the other.
Thm_C24 ==
    [][/\ \A p \in Callers :
            (/\ callers[p].pc = "item"
             /\ callers'[p].pc # "done"
             /\ Len(callers'[p].ticks) = callers[p].i
             /\ callers'[p].ticks[callers[p].i].updated) =>
                nodes'[callers[p].i] =
                    [callers[p].list[callers[p].i] EXCEPT !.annotations =
                        MapSet(@, annotationNodeNotReadyTick,
                               Sprintf(callers'[p].ticks[callers[p].i].count))]
       /\ (\A p \in Callers : PassSucceeded(p) /\ CountedUp(p, 1))' =>
             /\ ListedCount(1, 1)' = ListedCount(2, 1)' =>
                   Counter(nodes'[1]) = ListedCount(1, 1)' + 1
             /\ ListedCount(1, 1)' < ListedCount(2, 1)' =>
                   Counter(nodes'[1]) = ListedCount(1, 1)' + 2
             /\ ListedCount(2, 1)' < ListedCount(1, 1)' =>
                   Counter(nodes'[1]) = ListedCount(2, 1)' + 2]_vars

\* both passes listed the node at 1, both evaluated it unhealthy, both
\* returned without error, and the store holds 2
Wit_C24 ==
    /\ \A p \in Callers :
          PassSucceeded(p) /\ CountedUp(p, 1) /\ ListedCount(p, 1) = 1
    /\ Counter(nodes[1]) = 2

\* the same two passes one after the other: the second listed the node at 2
\* and the store holds 3
Seq_C24 ==
    /\ \A p \in Callers : PassSucceeded(p) /\ CountedUp(p, 1)
    /\ ListedCount(1, 1) = 1
    /\ ListedCount(2, 1) = 2
    /\ Counter(nodes[1]) = 3

(***************************************************************************)
(* Claims about the selector's filters and the lock's scope                *)
(***************************************************************************)
\* a list the selector's filters have nothing to take from
Filtered(list, limit) ==
    Cardinality(Masters(list)) <= 1 /\ Len(list) <= limit

\* C25: the single-master filter followed by the cut to the limit returns a
\* list with at most one master and at most limit entries unchanged; what
\* the two filters return is such a list, so applying them again with the
\* same limit returns what applying them once returned.
Thm_C25 ==
    calc.fn = "selector" =>
        /\ Filtered(calc.nodeList, calc.limit) => calc.out = calc.nodeList
        /\ Filtered(calc.out, calc.limit)
        /\ calc.again = calc.out

\* a list with two masters and more entries than the limit: the filters took
\* a master and cut the rest to the limit, one master among it, and the
\* second application returned the same list
Wit_C25 ==
    /\ calc.fn = "selector"
    /\ Len(calc.nodeList) = MaxLen
    /\ Cardinality(Masters(calc.nodeList)) = 2
    /\ calc.limit = 2
    /\ Len(calc.out) = 2
    /\ Cardinality(Masters(calc.out)) = 1
    /\ calc.again = calc.out

\* the annotations of m other than the lock entry of component
OtherAnnotations(m, component) ==
    [k \in (DOMAIN m.kv) \ {lockName(component)} |-> m.kv[k]]

\* C26: a Lock or a ClearLock of an owner changes no annotation of the
\* namespace other than the lock entry of that owner: not the lock entry of
\* the other owner, and not an annotation that is no lock entry, the one named
\* by the bare owner string included.
Cex_C26 ==
    [][\A component \in Owners :
         (LockTaken(component) \/ ClearLockTaken(component)) =>
            OtherAnnotations(ns', component) = OtherAnnotations(ns, component)]_vars

(***************************************************************************)
(* Claims about the lock a pass leaves behind                              *)
(***************************************************************************)
\* the call of this step returned without error
PassReturned == DetectTaken /\ ret'.err = "nil"

\* C27 as stated: every DetectBadNodes call that returns without error
\* leaves the lock entry of the detector holding an expiry strictly after the
\* time of the call.
Cex_C27 ==
    [][PassReturned =>
          /\ HasEntry(ns', cfg.lockName)
          /\ EntryParses(ns', cfg.lockName)
          /\ Expiry(ns', cfg.lockName) > now]_vars

\* C27: every DetectBadNodes call that returns without error, with or
\* without nodes, leaves a lock entry of the detector: the one it found when
\* that was still ahead of the clock, and else now + PauseBetweenTermination
\* cut to whole seconds.  The expiry left is strictly after the time of the
\* call when the lock was held or the pause is at least one second.
Thm_C27 ==
    [][PassReturned =>
          /\ HasEntry(ns', cfg.lockName)
          /\ EntryParses(ns', cfg.lockName)
          /\ LockedNow(ns, cfg.lockName) =>
                (ns' = ns /\ ret'.lock = "alreadyExists")
          /\ ~LockedNow(ns, cfg.lockName) =>
                /\ ret'.lock = "nil"
                /\ ns'.kv[lockName(cfg.lockName)] =
                       Format(now + cfg.pauseBetweenTermination)
          /\ (LockedNow(ns, cfg.lockName)
                \/ cfg.pauseBetweenTermination >= Second) =>
                Expiry(ns', cfg.lockName) > now]_vars

\* a call over a cluster with nodes returned no node and no error and left
\* the expiry 30 seconds after its time
Wit_C27 ==
    /\ ret.op = "DetectBadNodes"
    /\ ret.err = "nil"
    /\ ret.lock = "nil"
    /\ ret.total > 0
    /\ ret.nodes = <<>>
    /\ now = ret.at
    /\ cfg.pauseBetweenTermination = 30 * Second
    /\ HasEntry(ns, cfg.lockName)
    /\ Expiry(ns, cfg.lockName) = now + 30 * Second

\* a call that returned nodes left the expiry 30 seconds after its time
Found_C27 ==
    /\ ret.op = "DetectBadNodes"
    /\ ret.err = "nil"
    /\ ret.lock = "nil"
    /\ ret.nodes # <<>>
    /\ now = ret.at
    /\ cfg.pauseBetweenTermination = 30 * Second
    /\ HasEntry(ns, cfg.lockName)
    /\ Expiry(ns, cfg.lockName) = now + 30 * Second

====
